---- MODULE Spec2Model ----
(***************************************************************************)
(* kindmesh: the Neo4j data-access layer (kindmesh/utils/graph.py) and the *)
(* Streamlit session code that calls it (app/auth.py,                      *)
(* app/user_management.py).  The graph store is modelled as sets of nodes  *)
(* and relationships; every node has its own identity, because the store   *)
(* itself enforces no uniqueness on any property.                          *)
(***************************************************************************)
EXTENDS Integers, Sequences, FiniteSets, TLC

VARIABLES
    users,          \* (:User) nodes
    recipients,     \* (:Recipient) nodes
    interactions,   \* (:Interaction) nodes
    surveys,        \* (:Survey) nodes
    responses,      \* (:SurveyResponse) nodes
    rels,           \* relationships between nodes
    session,        \* st.session_state of every browser session
    clock,          \* value the next datetime() returns
    nextId,         \* identity of the next node the store creates
    nextUuid,       \* next value uuid.uuid4() returns
    ret,            \* the last call: operation, arguments, result
    stored_roles,   \* history: the roles requested in the create_user calls
                    \* that stored a user
    reachable,      \* the driver can reach the Neo4j server
    inflight        \* the calls of concurrent callers that are between
                    \* two of their steps

vars == <<users, recipients, interactions, surveys, responses, rels,
          session, clock, nextId, nextUuid, ret, stored_roles, reachable,
          inflight>>

store == <<users, recipients, interactions, surveys, responses, rels>>

\* ---------------------------------------------------------------- bounds
MaxClock == 5
MaxNodes == 4
MaxVoters == 2
MaxLen == 4

\* ------------------------------------------------------------- constants
None == "None"
SeedUser == "Hello"
MinLength == 8
Roles == {"Greeter", "Friend", "Admin"}
Sessions == {"s1", "s2"}
Procs == {"p1", "p2"}

\* ------------------------------------------------------ password policy
Lower == {"a", "b", "c", "d", "e", "f", "g", "h", "i", "j", "k", "l", "m",
          "n", "o", "p", "q", "r", "s", "t", "u", "v", "w", "x", "y", "z"}
Upper == {"A", "B", "C", "D", "E", "F", "G", "H", "I", "J", "K", "L", "M",
          "N", "O", "P", "Q", "R", "S", "T", "U", "V", "W", "X", "Y", "Z"}
Digit == {"0", "1", "2", "3", "4", "5", "6", "7", "8", "9"}
Special == {"!", "@", "#", "$", "%", "^", "&", "*", "(", ")", ",", ".",
            "?", "\"", ":", "{", "}", "|", "<", ">"}

\* re.search(r'[class]', password)
re_search(class, password) == \E i \in 1..Len(password) : password[i] \in class

\* validate_password that stops at the first rule the password violates
validate_password_first_error(password, min_length) ==
    LET errors ==
            IF Len(password) < min_length THEN <<"length">>
            ELSE IF ~re_search(Lower, password) THEN <<"lowercase">>
            ELSE IF ~re_search(Upper, password) THEN <<"uppercase">>
            ELSE IF ~re_search(Digit, password) THEN <<"number">>
            ELSE IF ~re_search(Special, password) THEN <<"special">>
            ELSE <<>>
    IN  [valid |-> Len(errors) = 0, errors |-> errors]

\* validate_password: the list of error messages, in the order of the checks
validate_password(password, min_length) ==
    LET errors ==
            (IF Len(password) < min_length THEN <<"length">> ELSE <<>>)
         \o (IF ~re_search(Lower, password) THEN <<"lowercase">> ELSE <<>>)
         \o (IF ~re_search(Upper, password) THEN <<"uppercase">> ELSE <<>>)
         \o (IF ~re_search(Digit, password) THEN <<"number">> ELSE <<>>)
         \o (IF ~re_search(Special, password) THEN <<"special">> ELSE <<>>)
    IN  [valid |-> Len(errors) = 0, errors |-> errors]

\* ---------------------------------------------------------------- bcrypt
\* bcrypt.hashpw(password, salt): the salt is kept in the hash
hashpw(password, salt) == [salt |-> salt, digest |-> <<salt, password>>]

\* checkpw that compares the salt only
checkpw_salt_only(password, hashed) ==
    hashpw(password, hashed.salt).salt = hashed.salt

\* bcrypt.checkpw(password, hashed): re-hash with the stored salt and compare
checkpw(password, hashed) == hashpw(password, hashed.salt) = hashed

\* passwords the callers type
SeedPw == <<"W", "o", "r", "l", "d", "!">>
GoodPw == <<"P", "a", "s", "s", "w", "0", "r", "d", "!">>
OtherPw == <<"S", "3", "c", "u", "r", "e", "#", "K", "y">>
WeakPw == <<"p", "a", "s", "s", "w", "o", "r", "d">>

\* ------------------------------------------------------------ graph store
UsersNamed(username) == {n \in users : n.username = username}

\* DETACH DELETE: the relationships that start or end at one of the nodes
Attached(ids) == {r \in rels : r.src \in ids \/ r.dst \in ids}

Call(op, args, ok, val) == [op |-> op, args |-> args, ok |-> ok, val |-> val]

\* the password_hash of a User node that has none
NoHash == [salt |-> -1, digest |-> <<>>]

\* what a create_user call that raises nothing hands to its caller besides
\* its bool
NoException == [exception |-> None, errors |-> <<>>]

\* create_user, the policy check: the ValueError raised outside the try
\* block, whose message joins the error messages of validate_password
RaisedCaught(errors) == NoException

Raised(errors) == [exception |-> "ValueError", errors |-> errors]

\* a caller that has no create_user call under way
Idle == [pc |-> "idle", args |-> <<>>, password_hash |-> NoHash,
         role |-> None]

NewSession ==
    [authenticated |-> FALSE, username |-> None, role |-> None,
     admin_demotion_votes |-> <<>>]

\* the seeded store, with no session logged in and no call under way
InitStore ==
    /\ users = {[id |-> 0, username |-> SeedUser,
                 password_hash |-> hashpw(SeedPw, 0),
                 role |-> "Greeter", created_at |-> 0]}
    /\ recipients = {}
    /\ interactions = {}
    /\ surveys = {}
    /\ responses = {}
    /\ rels = {}
    /\ session = [s \in Sessions |-> NewSession]
    /\ clock = 1
    /\ nextId = 1
    /\ nextUuid = 1
    /\ stored_roles = {}
    /\ reachable = TRUE
    /\ inflight = [p \in Procs |-> Idle]

Init ==
    /\ InitStore
    /\ ret = Call("init", <<>>, TRUE, None)

\* a caller of validate_password applies it to the password typed and the
\* min_length asked for: the call touches neither the store nor a session
validate_password_call ==
    /\ ret.op = "typed"
    /\ ret' = Call("validate_password", ret.args,
                   validate_password(ret.args[1], ret.args[2]).valid,
                   validate_password(ret.args[1], ret.args[2]).errors)
    /\ UNCHANGED <<store, session, clock, nextId, nextUuid, stored_roles,
                   reachable, inflight>>

\* the store's clock moves on with every call that changes the store
Advance ==
    IF store' = store THEN clock' = clock
    ELSE clock < MaxClock /\ clock' = clock + 1

\* ------------------------------------------------------- user management
\* bcrypt.gensalt(): a fresh salt for every call
gensalt == clock

\* create_user: the role the node is stored with ("first user after Hello")
StoredRole(role) ==
    IF role = "Friend" /\ {n \in users : n.username # SeedUser} = {}
    THEN "Admin" ELSE role

\* create_user
create_user(username, password, role, created_by) ==
    LET policy == validate_password(password, MinLength)
        args == <<username, password, role, created_by>>
        creators == UsersNamed(created_by)
        \* one row per matched creator; one row when no creator is given
        rows == IF created_by = None THEN {0} ELSE {c.id : c \in creators}
        NodeOf(row) ==
            [id |-> nextId + Cardinality({x \in rows : x < row}),
             username |-> username,
             password_hash |-> hashpw(password, gensalt),
             role |-> StoredRole(role),
             created_at |-> clock]
        created == {NodeOf(row) : row \in rows}
    IN  /\ IF ~policy.valid
           THEN /\ ret' = Call("create_user", args, FALSE,
                               Raised(policy.errors))
                /\ UNCHANGED <<users, rels, nextId>>
           ELSE /\ reachable
                /\ nextId + Cardinality(rows) - 1 <= MaxNodes
                /\ users' = users \cup created
                /\ rels' = rels \cup
                      (IF created_by = None THEN {}
                       ELSE {[type |-> "CREATED", src |-> row,
                              dst |-> NodeOf(row).id, ts |-> clock, k |-> 1]
                             : row \in rows})
                /\ nextId' = nextId + Cardinality(rows)
                /\ ret' = Call("create_user", args, created # {},
                               NoException)
        /\ stored_roles' = IF policy.valid /\ created # {}
                           THEN stored_roles \cup {role} ELSE stored_roles
        /\ UNCHANGED <<recipients, interactions, surveys, responses,
                       session, nextUuid, reachable, inflight>>
        /\ Advance

\* create_user while the server does not answer: a password that passes the
\* policy reaches the count query or the CREATE query, whose exception is
\* caught and logged, and the method returns False
create_user_except(username, password, role, created_by) ==
    /\ ~reachable
    /\ validate_password(password, MinLength).valid
    /\ ret' = Call("create_user", <<username, password, role, created_by>>,
                   FALSE, NoException)
    /\ UNCHANGED <<store, session, clock, nextId, nextUuid, stored_roles,
                   reachable, inflight>>

\* create_user as concurrent callers run it, first half: the password check,
\* the hash and, for role Friend, the count query in a session of its own;
\* the role the caller goes on with is kept until its CREATE query runs
create_user_count(p, username, password, role, created_by) ==
    LET policy == validate_password(password, MinLength)
        args == <<username, password, role, created_by>>
    IN  /\ inflight[p].pc = "idle"
        /\ IF ~policy.valid
           THEN /\ ret' = Call("create_user", args, FALSE,
                               Raised(policy.errors))
                /\ UNCHANGED inflight
           ELSE /\ reachable
                /\ ret' = Call("query_check", <<p>>, TRUE, StoredRole(role))
                /\ inflight' = [inflight EXCEPT ![p] =
                                  [pc |-> "counted", args |-> args,
                                   password_hash |-> hashpw(password, gensalt),
                                   role |-> StoredRole(role)]]
        /\ UNCHANGED <<store, session, clock, nextId, nextUuid, stored_roles,
                       reachable>>

\* create_user as concurrent callers run it, second half: the CREATE query,
\* in a second session, with the role decided in the first half
create_user_create(p) ==
    LET args == inflight[p].args
        created_by == args[4]
        rows == IF created_by = None THEN {0}
                ELSE {c.id : c \in UsersNamed(created_by)}
        NodeOf(row) ==
            [id |-> nextId + Cardinality({x \in rows : x < row}),
             username |-> args[1],
             password_hash |-> inflight[p].password_hash,
             role |-> inflight[p].role,
             created_at |-> clock]
        created == {NodeOf(row) : row \in rows}
    IN  /\ reachable
        /\ inflight[p].pc = "counted"
        /\ nextId + Cardinality(rows) - 1 <= MaxNodes
        /\ users' = users \cup created
        /\ rels' = rels \cup
              (IF created_by = None THEN {}
               ELSE {[type |-> "CREATED", src |-> row,
                      dst |-> NodeOf(row).id, ts |-> clock, k |-> 1]
                     : row \in rows})
        /\ nextId' = nextId + Cardinality(rows)
        /\ ret' = Call("create_user", args, created # {}, NoException)
        /\ stored_roles' = IF created # {} THEN stored_roles \cup {args[3]}
                           ELSE stored_roles
        /\ inflight' = [inflight EXCEPT ![p] = Idle]
        /\ UNCHANGED <<recipients, interactions, surveys, responses,
                       session, nextUuid, reachable>>
        /\ Advance

\* authenticate_user: the user data of a failed authentication (Python None)
NoData == [username |-> None, role |-> None]

\* authenticate_user that names the user in the data of a wrong password
AuthResultNamesUser(n, password) ==
    IF checkpw(password, n.password_hash)
    THEN [ok |-> TRUE, val |-> [username |-> n.username, role |-> n.role]]
    ELSE [ok |-> FALSE, val |-> [username |-> n.username, role |-> None]]

\* authenticate_user: the value returned when the record read is node n
AuthResult(n, password) ==
    IF checkpw(password, n.password_hash)
    THEN [ok |-> TRUE, val |-> [username |-> n.username, role |-> n.role]]
    ELSE [ok |-> FALSE, val |-> NoData]

\* authenticate_user: the values it can return; result.single() takes the
\* first record, in no defined order, when several nodes match
AuthResultsIn(nodes, username, password) ==
    IF {n \in nodes : n.username = username} = {}
    THEN {[ok |-> FALSE, val |-> NoData]}
    ELSE {AuthResult(n, password) : n \in {m \in nodes : m.username = username}}

AuthResults(username, password) == AuthResultsIn(users, username, password)

\* authenticate_user
authenticate_user(username, password) ==
    /\ reachable
    /\ \E r \in AuthResults(username, password) :
          ret' = Call("authenticate_user", <<username, password>>, r.ok, r.val)
    /\ UNCHANGED <<store, session, clock, nextId, nextUuid, stored_roles, reachable, inflight>>

\* promote_user without the test that the promoter is another user
PromoteRowsSelf(username, promoted_by) ==
    {<<p, u>> \in UsersNamed(promoted_by) \X UsersNamed(username) :
        p.role = "Admin"}

\* promote_user without the test of the promoter's stored role
PromoteRowsAnyRole(username, promoted_by) ==
    {<<p, u>> \in UsersNamed(promoted_by) \X UsersNamed(username) :
        u.username # p.username}

\* promote_user: the (promoter, u) rows that pass the WHERE clause
PromoteRows(username, promoted_by) ==
    {<<p, u>> \in UsersNamed(promoted_by) \X UsersNamed(username) :
        p.role = "Admin" /\ u.username # p.username}

\* promote_user
promote_user(username, promoted_by) ==
    LET rows == PromoteRows(username, promoted_by)
        promoted == {row[2].id : row \in rows}
    IN  /\ reachable
        /\ users' = {IF n.id \in promoted THEN [n EXCEPT !.role = "Admin"]
                     ELSE n : n \in users}
        /\ rels' = rels \cup
              {[type |-> "PROMOTED", src |-> row[1].id, dst |-> row[2].id,
                ts |-> clock, k |-> 1] : row \in rows}
        /\ ret' = Call("promote_user", <<username, promoted_by>>,
                       rows # {}, None)
        /\ UNCHANGED <<recipients, interactions, surveys, responses,
                       session, nextId, nextUuid, stored_roles, reachable, inflight>>
        /\ Advance

\* demote_admin: the count of the check query
AdminCount(demoted_by) ==
    Cardinality({n \in users :
                    /\ \E i \in 1..Len(demoted_by) : n.username = demoted_by[i]
                    /\ n.role = "Admin"})

\* demote_admin: the nodes the demote query sets to Friend
DemoteTargets(username) == {n \in UsersNamed(username) : n.role = "Admin"}

\* demote_admin: the DEMOTED relationships the demote query creates
DemotedRels(username, demoted_by) ==
    {[type |-> "DEMOTED", src |-> d.id, dst |-> u.id, ts |-> clock, k |-> i]
       : <<u, i, d>> \in {t \in DemoteTargets(username)
                                \X (1..Len(demoted_by)) \X users :
                             t[3].username = demoted_by[t[2]]}}

\* demote_admin: both guards passed, the demote query runs
DemoteRuns(demoted_by) == Len(demoted_by) >= 2 /\ AdminCount(demoted_by) >= 2

\* demote_admin: the User nodes after the call
DemoteUsers(username, demoted_by) ==
    IF DemoteRuns(demoted_by)
    THEN {IF n \in DemoteTargets(username) THEN [n EXCEPT !.role = "Friend"]
          ELSE n : n \in users}
    ELSE users

\* demote_admin: the relationships after the call
DemoteRels(username, demoted_by) ==
    IF DemoteRuns(demoted_by)
    THEN rels \cup DemotedRels(username, demoted_by) ELSE rels

\* demote_admin: the value returned
DemoteResult(username, demoted_by) ==
    DemoteRuns(demoted_by) /\ DemotedRels(username, demoted_by) # {}

\* demote_admin
demote_admin(username, demoted_by) ==
    /\ reachable
    /\ users' = DemoteUsers(username, demoted_by)
    /\ rels' = DemoteRels(username, demoted_by)
    /\ ret' = Call("demote_admin", <<username, demoted_by>>,
                   DemoteResult(username, demoted_by), None)
    /\ UNCHANGED <<recipients, interactions, surveys, responses,
                   session, nextId, nextUuid, stored_roles, reachable, inflight>>
    /\ Advance

\* demote_admin as concurrent callers run it, first half: the length test
\* and the check query; a call that passes both goes on to its demote query
demote_admin_check(p, username, demoted_by) ==
    /\ reachable
    /\ inflight[p].pc = "idle"
    /\ IF DemoteRuns(demoted_by)
       THEN /\ ret' = Call("check_query", <<p>>, TRUE, AdminCount(demoted_by))
            /\ inflight' = [inflight EXCEPT ![p] =
                              [pc |-> "checked",
                               args |-> <<username, demoted_by>>,
                               password_hash |-> NoHash, role |-> None]]
       ELSE /\ ret' = Call("demote_admin", <<username, demoted_by>>,
                           FALSE, None)
            /\ UNCHANGED inflight
    /\ UNCHANGED <<store, session, clock, nextId, nextUuid, stored_roles,
                   reachable>>

\* demote_admin as concurrent callers run it, second half: the demote
\* query, a second query of the same session
demote_admin_demote(p) ==
    LET username == inflight[p].args[1]
        demoted_by == inflight[p].args[2]
    IN  /\ reachable
        /\ inflight[p].pc = "checked"
        /\ users' = {IF n \in DemoteTargets(username)
                     THEN [n EXCEPT !.role = "Friend"] ELSE n : n \in users}
        /\ rels' = rels \cup DemotedRels(username, demoted_by)
        /\ ret' = Call("demote_admin", <<username, demoted_by>>,
                       DemotedRels(username, demoted_by) # {}, None)
        /\ inflight' = [inflight EXCEPT ![p] = Idle]
        /\ UNCHANGED <<recipients, interactions, surveys, responses,
                       session, nextId, nextUuid, stored_roles, reachable>>
        /\ Advance

\* delete_user
delete_user(username) ==
    LET deleted == {n.id : n \in UsersNamed(username)}
    IN  /\ reachable
        /\ users' = users \ UsersNamed(username)
        /\ rels' = rels \ Attached(deleted)
        /\ ret' = Call("delete_user", <<username>>, deleted # {}, None)
        /\ UNCHANGED <<recipients, interactions, surveys, responses,
                       session, nextId, nextUuid, stored_roles, reachable, inflight>>
        /\ Advance

\* ------------------------------------------------------ browser sessions
\* login (app/auth.py)
login(s, username, password) ==
    /\ reachable
    /\ ~session[s].authenticated
    /\ \E r \in AuthResults(username, password) :
          /\ ret' = Call("login", <<s, username, password>>, r.ok, r.val)
          /\ session' = IF r.ok
                        THEN [session EXCEPT ![s].authenticated = TRUE,
                                             ![s].username = r.val.username,
                                             ![s].role = r.val.role]
                        ELSE session
    /\ UNCHANGED <<store, clock, nextId, nextUuid, stored_roles, reachable, inflight>>

\* logout that keeps the votes of the session
logout_keeps_votes(s) ==
    /\ session[s].authenticated
    /\ session' = [session EXCEPT ![s].authenticated = FALSE,
                                  ![s].username = None,
                                  ![s].role = None]
    /\ ret' = Call("logout", <<s>>, TRUE, None)
    /\ UNCHANGED <<store, clock, nextId, nextUuid, stored_roles, reachable,
                   inflight>>

\* logout (app/auth.py)
logout(s) ==
    /\ session[s].authenticated
    /\ session' = [session EXCEPT ![s] = NewSession]
    /\ ret' = Call("logout", <<s>>, TRUE, None)
    /\ UNCHANGED <<store, clock, nextId, nextUuid, stored_roles, reachable, inflight>>

\* st.session_state.admin_demotion_votes[target], [] when the key is absent
VotesOf(s, target) ==
    IF target \in DOMAIN session[s].admin_demotion_votes
    THEN session[s].admin_demotion_votes[target] ELSE <<>>

\* list.remove(x): drops the first occurrence of x
ListRemove(list, x) ==
    LET i == CHOOSE j \in 1..Len(list) :
                 list[j] = x /\ \A h \in 1..(j - 1) : list[h] # x
    IN  SubSeq(list, 1, i - 1) \o SubSeq(list, i + 1, Len(list))

\* x in list
InList(x, list) == \E i \in 1..Len(list) : list[i] = x

\* render_user_management: the vote list after the vote button toggled
Toggled(list, username) ==
    IF InList(username, list) THEN ListRemove(list, username)
    ELSE Append(list, username)

\* dict[key] = value
DictSet(dict, key, value) ==
    [x \in DOMAIN dict \cup {key} |-> IF x = key THEN value ELSE dict[x]]

\* render_user_management: the admins offered for demotion to `username`
admin_users(username) ==
    {n.username : n \in {m \in users : m.role = "Admin"
                                        /\ m.username # username}}

\* render_user_management: the "Vote to Demote" / "Remove Vote" button of an
\* admin page, with the demotion it requests once two votes are in the list
vote_button(s, user_to_demote) ==
    LET username == session[s].username
        votes == Toggled(VotesOf(s, user_to_demote), username)
        success == Len(votes) >= 2 /\ DemoteResult(user_to_demote, votes)
    IN  /\ reachable
        /\ session[s].authenticated
        /\ session[s].role = "Admin"
        /\ user_to_demote \in admin_users(username)
        /\ IF Len(votes) >= 2
           THEN /\ users' = DemoteUsers(user_to_demote, votes)
                /\ rels' = DemoteRels(user_to_demote, votes)
           ELSE UNCHANGED <<users, rels>>
        /\ session' = [session EXCEPT ![s].admin_demotion_votes =
                          DictSet(@, user_to_demote,
                                  IF success THEN <<>> ELSE votes)]
        /\ ret' = Call("vote_button", <<s, user_to_demote>>, success, None)
        /\ UNCHANGED <<recipients, interactions, surveys, responses,
                       nextId, nextUuid, stored_roles, reachable, inflight>>
        /\ Advance

\* render_user_management: the users offered for promotion
non_admin_users(username) ==
    {n.username : n \in {m \in users : m.role # "Admin"
                                        /\ m.username # username}}

\* render_user_management: the "Promote to Admin" button of an admin page,
\* which main renders for a session whose role is Admin
promote_button(s, user_to_promote) ==
    /\ session[s].authenticated
    /\ session[s].role = "Admin"
    /\ user_to_promote \in non_admin_users(session[s].username)
    /\ promote_user(user_to_promote, session[s].username)

\* ------------------------------------------------------------ the server
\* the Neo4j server stops answering: session.run raises ServiceUnavailable
server_down ==
    /\ reachable
    /\ reachable' = FALSE
    /\ ret' = Call("server_down", <<>>, TRUE, None)
    /\ UNCHANGED <<store, session, clock, nextId, nextUuid, stored_roles,
                   inflight>>

\* the Neo4j server answers again
server_up ==
    /\ ~reachable
    /\ reachable' = TRUE
    /\ ret' = Call("server_up", <<>>, TRUE, None)
    /\ UNCHANGED <<store, session, clock, nextId, nextUuid, stored_roles,
                   inflight>>

\* the methods that return a bool and whose except branch returns False
BoolOps == {"create_recipient", "log_interaction", "promote_user",
            "delete_user", "delete_survey", "save_questionnaire"}

\* a bool method called while the server does not answer: the exception of
\* session.run is caught, logged, and the method returns False
except_branch(op, args) ==
    /\ ~reachable
    /\ op \in BoolOps
    /\ ret' = Call(op, args, FALSE, None)
    /\ UNCHANGED <<store, session, clock, nextId, nextUuid, stored_roles,
                   reachable, inflight>>

\* ------------------------------------------------ recipients and ledger
NullTime == -1

RecipientsKeyed(key) == {r \in recipients : r.key = key}

\* create_recipient: MERGE on the key; created_at and the pseudonym are both
\* part of ON CREATE SET
create_recipient(key, pseudonym) ==
    LET matched == RecipientsKeyed(key)
        node == [id |-> nextId, key |-> key, created_at |-> clock,
                 pseudonym |-> pseudonym]
    IN  /\ reachable
        /\ IF matched = {}
           THEN /\ nextId <= MaxNodes
                /\ recipients' = recipients \cup {node}
                /\ nextId' = nextId + 1
           ELSE UNCHANGED <<recipients, nextId>>
        /\ ret' = Call("create_recipient", <<key, pseudonym>>, TRUE, None)
        /\ UNCHANGED <<users, interactions, surveys, responses, rels,
                       session, nextUuid, stored_roles, reachable, inflight>>
        /\ Advance

\* log_interaction with the MERGE of the Recipient ahead of the MATCH
MergedRecipientsBeforeMatch(key, pseudonym, n) ==
    LET matched == RecipientsKeyed(key)
        fresh == [id |-> nextId, key |-> key, created_at |-> clock,
                  pseudonym |-> None]
        before == IF matched = {} THEN recipients \cup {fresh} ELSE recipients
        matchRuns == pseudonym # None /\ (matched # {} \/ n > 1)
    IN  {IF r.key = key /\ matchRuns
         THEN [r EXCEPT !.pseudonym = pseudonym] ELSE r : r \in before}

\* create_recipient as concurrent callers run it, first half: the MERGE
\* looks for a Recipient with the key.  No uniqueness constraint exists on
\* Recipient.key, so the MERGE takes no lock: when it finds a node the query
\* is done, when it finds none the node is created in a later step
create_recipient_match(p, key, pseudonym) ==
    /\ reachable
    /\ inflight[p].pc = "idle"
    /\ IF RecipientsKeyed(key) # {}
       THEN /\ ret' = Call("create_recipient", <<key, pseudonym>>, TRUE, None)
            /\ UNCHANGED inflight
       ELSE /\ ret' = Call("merge_match", <<p>>, TRUE, None)
            /\ inflight' = [inflight EXCEPT ![p] =
                              [pc |-> "matched", args |-> <<key, pseudonym>>,
                               password_hash |-> NoHash, role |-> None]]
    /\ UNCHANGED <<store, session, clock, nextId, nextUuid, stored_roles,
                   reachable>>

\* create_recipient as concurrent callers run it, second half: the MERGE
\* that found no node creates one and runs ON CREATE SET
create_recipient_create(p) ==
    LET key == inflight[p].args[1]
        pseudonym == inflight[p].args[2]
    IN  /\ reachable
        /\ inflight[p].pc = "matched"
        /\ nextId <= MaxNodes
        /\ recipients' = recipients \cup
              {[id |-> nextId, key |-> key, created_at |-> clock,
                pseudonym |-> pseudonym]}
        /\ nextId' = nextId + 1
        /\ ret' = Call("create_recipient", <<key, pseudonym>>, TRUE, None)
        /\ inflight' = [inflight EXCEPT ![p] = Idle]
        /\ UNCHANGED <<users, interactions, surveys, responses, rels,
                       session, nextUuid, stored_roles, reachable>>
        /\ Advance

\* log_interaction: the Recipient nodes after the MERGE ran for `n` rows;
\* the first row creates the node when no node has the key, every other
\* row matches, and only the pseudonym query has an ON MATCH SET
MergedRecipients(key, pseudonym, n) ==
    LET matched == RecipientsKeyed(key)
        fresh == [id |-> nextId, key |-> key, created_at |-> clock,
                  pseudonym |-> None]
        before == IF matched = {} THEN recipients \cup {fresh} ELSE recipients
        matchRuns == pseudonym # None /\ (matched # {} \/ n > 1)
    IN  IF n = 0 THEN recipients
        ELSE {IF r.key = key /\ matchRuns
              THEN [r EXCEPT !.pseudonym = pseudonym] ELSE r : r \in before}

\* log_interaction
log_interaction(logged_by, recipient_key, interaction_type, notes, recipient_pseudonym) ==
    LET loggers == UsersNamed(logged_by)
        matched == RecipientsKeyed(recipient_key)
        merged == MergedRecipients(recipient_key, recipient_pseudonym,
                                   Cardinality(loggers))
        targets == {r.id : r \in {m \in merged : m.key = recipient_key}}
        first == IF matched = {} THEN nextId + 1 ELSE nextId
        \* one row, and one Interaction, per (logger, recipient) pair
        rows == {u.id : u \in loggers} \X targets
        Pos(row) == Cardinality({x \in rows :
                        \/ x[1] < row[1]
                        \/ x[1] = row[1] /\ x[2] < row[2]})
        args == <<logged_by, recipient_key, interaction_type, notes,
                  recipient_pseudonym>>
    IN  /\ reachable
        /\ first + Cardinality(rows) - 1 <= MaxNodes
        /\ recipients' = merged
        /\ interactions' = interactions \cup
              {[id |-> first + Pos(row), timestamp |-> clock,
                type |-> interaction_type, notes |-> notes] : row \in rows}
        /\ rels' = rels
              \cup {[type |-> "LOGGED", src |-> row[1],
                     dst |-> first + Pos(row), ts |-> 0, k |-> 1]
                    : row \in rows}
              \cup {[type |-> "INVOLVES", src |-> first + Pos(row),
                     dst |-> row[2], ts |-> 0, k |-> 1] : row \in rows}
        /\ nextId' = IF rows = {} THEN nextId ELSE first + Cardinality(rows)
        /\ ret' = Call("log_interaction", args, rows # {}, None)
        /\ UNCHANGED <<users, surveys, responses, session, nextUuid, stored_roles, reachable, inflight>>
        /\ Advance

\* get_interactions, export_interactions_data: the rows of
\* MATCH (u:User)-[:LOGGED]->(i:Interaction)-[:INVOLVES]->(r:Recipient);
\* `path` tells rows of equal content apart, as their places in the list do
InteractionRows ==
    {[path |-> <<u.id, i.id, r.id>>, timestamp |-> i.timestamp,
      type |-> i.type, notes |-> i.notes, logged_by |-> u.username,
      recipient_key |-> r.key, recipient_pseudonym |-> r.pseudonym]
       : <<u, i, r>> \in {t \in users \X interactions \X recipients :
            /\ \E l \in rels : /\ l.type = "LOGGED"
                                /\ l.src = t[1].id /\ l.dst = t[2].id
            /\ \E v \in rels : /\ v.type = "INVOLVES"
                                /\ v.src = t[2].id /\ v.dst = t[3].id}}

\* get_interactions; the limit (100 by default) is above the number of
\* nodes, and the except branch returns the empty list
get_interactions(recipient_key) ==
    /\ ret' = Call("get_interactions", <<recipient_key>>, TRUE,
                   IF reachable
                   THEN {row \in InteractionRows :
                            recipient_key \in {None, row.recipient_key}}
                   ELSE {})
    /\ UNCHANGED <<store, session, clock, nextId, nextUuid, stored_roles,
                   reachable, inflight>>

\* export_interactions_data; the except branch returns the empty list
export_interactions_data ==
    /\ ret' = Call("export_interactions_data", <<>>, TRUE,
                   IF reachable THEN InteractionRows ELSE {})
    /\ UNCHANGED <<store, session, clock, nextId, nextUuid, stored_roles,
                   reachable, inflight>>

\* get_summary_stats: the dictionary returned when the query has no row
EmptyStats ==
    [total_interactions |-> 0, total_recipients |-> 0, interaction_types |-> {}]

\* get_summary_stats: the query is a chain of MATCH ... WITH; a MATCH that
\* finds nothing ends the chain with no row
SummaryStats ==
    LET total_interactions == Cardinality(interactions)
        total_recipients == Cardinality(recipients)
        types == {i.type : i \in interactions}
        interaction_types ==
            {[type |-> t,
              count |-> Cardinality({i \in interactions : i.type = t})]
             : t \in types}
    IN  IF recipients = {} THEN EmptyStats
        ELSE IF interactions = {} THEN EmptyStats
        ELSE [total_interactions |-> total_interactions,
              total_recipients |-> total_recipients,
              interaction_types |-> interaction_types]

\* get_summary_stats; the except branch returns the same dictionary as a
\* query without a row
get_summary_stats ==
    /\ ret' = Call("get_summary_stats", <<>>, TRUE,
                   IF reachable THEN SummaryStats ELSE EmptyStats)
    /\ UNCHANGED <<store, session, clock, nextId, nextUuid, stored_roles, reachable, inflight>>

\* --------------------------------------------------- surveys, responses
NoSurvey == 0

\* json.dumps / json.loads
json_dumps(value) == <<"json", value>>

json_loads(text) == text[2]

SurveysWithId(survey_id) == {v \in surveys : v.sid = survey_id}

ResponsesFor(recipient_key, section) ==
    {q \in responses : q.recipient_key = recipient_key /\ q.section = section}

\* a relationship that carries no property
Rel(type, src, dst) == [type |-> type, src |-> src, dst |-> dst,
                        ts |-> 0, k |-> 1]

\* create_survey: MERGE on the creator, then one Survey per creator row
create_survey(name, description, sections, created_by) ==
    LET matched == UsersNamed(created_by)
        creator == [id |-> nextId, username |-> created_by,
                    password_hash |-> NoHash, role |-> None,
                    created_at |-> NullTime]
        creators == IF matched = {} THEN {creator} ELSE matched
        first == IF matched = {} THEN nextId + 1 ELSE nextId
        Pos(c) == Cardinality({x \in creators : x.id < c.id})
        survey_id == nextUuid
    IN  /\ reachable
        /\ first + Cardinality(creators) - 1 <= MaxNodes
        /\ users' = users \cup creators
        /\ surveys' = surveys \cup
              {[id |-> first + Pos(c), sid |-> survey_id, name |-> name,
                description |-> description,
                sections_json |-> json_dumps(sections),
                created_at |-> clock, created_by |-> created_by,
                updated_at |-> NullTime] : c \in creators}
        /\ rels' = rels \cup
              {[type |-> "CREATED", src |-> c.id, dst |-> first + Pos(c),
                ts |-> 0, k |-> 1] : c \in creators}
        /\ nextId' = first + Cardinality(creators)
        /\ nextUuid' = nextUuid + 1
        /\ ret' = Call("create_survey", <<name, description, sections,
                        created_by>>, TRUE, survey_id)
        /\ UNCHANGED <<recipients, interactions, responses, session,
                       stored_roles, reachable, inflight>>
        /\ Advance

\* update_survey: every Survey of that id gets the new name, description and
\* sections, and an updated_at
update_survey(survey_id, name, description, sections) ==
    LET matched == SurveysWithId(survey_id)
    IN  /\ reachable
        /\ surveys' = (surveys \ matched) \cup
              {[v EXCEPT !.name = name, !.description = description,
                         !.sections_json = json_dumps(sections),
                         !.updated_at = clock] : v \in matched}
        /\ ret' = Call("update_survey", <<survey_id, name, description,
                        sections>>, matched # {}, None)
        /\ UNCHANGED <<users, recipients, interactions, responses, rels,
                       session, nextId, nextUuid, stored_roles, reachable,
                       inflight>>
        /\ Advance

\* delete_survey
delete_survey(survey_id) ==
    LET deleted == {v.id : v \in SurveysWithId(survey_id)}
    IN  /\ reachable
        /\ surveys' = surveys \ SurveysWithId(survey_id)
        /\ rels' = rels \ Attached(deleted)
        /\ ret' = Call("delete_survey", <<survey_id>>, deleted # {}, None)
        /\ UNCHANGED <<users, recipients, interactions, responses,
                       session, nextId, nextUuid, stored_roles, reachable, inflight>>
        /\ Advance

\* save_questionnaire with CREATE in place of MERGE for the response
MergedResponseAlwaysCreates(recipient_key, section, responses_json, survey_id, username, id, n) ==
    IF n = 0 THEN responses
    ELSE responses \cup
            {[id |-> id, section |-> section,
              recipient_key |-> recipient_key, created_at |-> clock,
              updated_at |-> NullTime, responses_json |-> responses_json,
              survey_id |-> survey_id, submitted_by |-> username]}

\* save_questionnaire: MERGE on (section, recipient_key) run for n rows
MergedResponse(recipient_key, section, responses_json, survey_id, username, id, n) ==
    LET matched == ResponsesFor(recipient_key, section)
        fresh == [id |-> id, section |-> section,
                  recipient_key |-> recipient_key, created_at |-> clock,
                  updated_at |-> NullTime, responses_json |-> responses_json,
                  survey_id |-> survey_id, submitted_by |-> username]
        OnMatch(q) ==
            [q EXCEPT !.updated_at = clock,
                      !.responses_json = responses_json,
                      !.survey_id = IF survey_id = NoSurvey THEN @
                                    ELSE survey_id,
                      !.submitted_by = IF username = None THEN @
                                       ELSE username]
    IN  IF n = 0 THEN responses
        ELSE IF matched = {}
        THEN responses \cup {IF n > 1 THEN OnMatch(fresh) ELSE fresh}
        ELSE {IF q \in matched THEN OnMatch(q) ELSE q : q \in responses}

\* save_questionnaire
save_questionnaire(recipient_key, section, answers, survey_id, username) ==
    LET withUser == survey_id # NoSurvey /\ username # None
        withSurvey == survey_id # NoSurvey
        \* the rows of the leading MATCH clauses; one row when there is none
        matchRows ==
            IF withUser
            THEN {<<u.id, v.id>> : <<u, v>> \in
                      UsersNamed(username) \X SurveysWithId(survey_id)}
            ELSE IF withSurvey
            THEN {<<0, v.id>> : v \in SurveysWithId(survey_id)}
            ELSE {<<0, 0>>}
        n == Cardinality(matchRows)
        oldR == RecipientsKeyed(recipient_key)
        newR == [id |-> nextId, key |-> recipient_key, created_at |-> clock,
                 pseudonym |-> None]
        rNodes == IF oldR = {} THEN {newR} ELSE oldR
        qId == IF oldR = {} THEN nextId + 1 ELSE nextId
        oldQ == ResponsesFor(recipient_key, section)
        merged == MergedResponse(recipient_key, section, json_dumps(answers),
                                 survey_id,
                                 IF withUser THEN username ELSE None, qId, n)
        qIds == IF oldQ = {} THEN {qId} ELSE {q.id : q \in oldQ}
        rIds == {r.id : r \in rNodes}
        sIds == {row[2] : row \in matchRows}
        args == <<recipient_key, section, answers, survey_id, username>>
    IN  /\ reachable
        /\ IF n = 0
           THEN UNCHANGED <<recipients, responses, rels, nextId>>
           ELSE /\ (IF oldQ = {} THEN qId ELSE qId - 1) <= MaxNodes
                /\ recipients' = recipients \cup rNodes
                /\ responses' = merged
                /\ rels' = rels
                      \cup (IF withSurvey
                            THEN {Rel("RESPONDED_TO", r, v)
                                    : <<r, v>> \in rIds \X sIds}
                                 \cup {Rel("HAS_RESPONSE", v, q)
                                         : <<v, q>> \in sIds \X qIds}
                            ELSE {})
                      \cup {Rel("PROVIDED", r, q) : <<r, q>> \in rIds \X qIds}
                /\ nextId' = IF oldQ = {} THEN qId + 1 ELSE qId
        /\ ret' = Call("save_questionnaire", args, n > 0, None)
        /\ UNCHANGED <<users, interactions, surveys, session, nextUuid, stored_roles, reachable, inflight>>
        /\ Advance

\* get_questionnaire that reads the responses through their Survey
get_questionnaire_of_survey(recipient_key, section) ==
    {[section |-> q.section, responses |-> json_loads(q.responses_json),
      created_at |-> q.created_at, updated_at |-> q.updated_at,
      survey_id |-> q.survey_id, submitted_by |-> q.submitted_by]
       : q \in {x \in responses :
                   /\ x.recipient_key = recipient_key
                   /\ section \in {None, x.section}
                   /\ \E v \in surveys :
                         Rel("HAS_RESPONSE", v.id, x.id) \in rels}}

\* get_questionnaire: the records returned, responses_json parsed back
get_questionnaire(recipient_key, section) ==
    {[section |-> q.section, responses |-> json_loads(q.responses_json),
      created_at |-> q.created_at, updated_at |-> q.updated_at,
      survey_id |-> q.survey_id, submitted_by |-> q.submitted_by]
       : q \in {x \in responses :
                   /\ x.recipient_key = recipient_key
                   /\ section \in {None, x.section}}}

\* ------------------------------------------------------------- the inputs
Usernames == {SeedUser, "ann", "bob"}
Passwords == {GoodPw, WeakPw}
Typed == {SeedPw, GoodPw, OtherPw}
Keys == {"R1", "R2"}
Pseudonyms == {"p1", "p2"}
Types == {"Food", "Clothing"}
Sections == {"financial", "housing"}
Answers == {[q1 |-> "yes"], [q1 |-> "no"]}
SurveyIds == 1..2

\* the characters passwords are typed from: one of each class of the policy
\* and one punctuation character that is not in its special class
PolicyChars == {"a", "Z", "7", "!", "_"}

\* the passwords of at most n characters
RECURSIVE PasswordsUpTo(_)
PasswordsUpTo(n) ==
    IF n = 0 THEN {<<>>}
    ELSE PasswordsUpTo(n - 1) \cup
         {Append(pw, c) : pw \in {x \in PasswordsUpTo(n - 1) : Len(x) = n - 1},
                          c \in PolicyChars}

PolicyPasswords == PasswordsUpTo(MaxLen)

\* the minimum lengths a caller asks for
MinLengths == {3, 4, 5}

\* the voter lists a caller can submit
RECURSIVE ListsUpTo(_)
ListsUpTo(n) ==
    IF n = 0 THEN {<<>>}
    ELSE ListsUpTo(n - 1) \cup
         {Append(l, u) : l \in {x \in ListsUpTo(n - 1) : Len(x) = n - 1},
                         u \in Usernames}

VoterLists == ListsUpTo(MaxVoters) \ {<<>>}

\* ------------------------------------------------------- specifications
\* the identity graph: accounts, roles, authentication
NextUsers ==
    \/ \E u \in {SeedUser, "ann"}, pw \in Passwords, r \in {"Friend", "Greeter"},
          by \in {None, "bob"} : create_user(u, pw, r, by)
    \/ \E u \in {"ann", "bob"}, pw \in {GoodPw, OtherPw} :
          authenticate_user(u, pw)
    \/ \E u \in {SeedUser, "bob"} : promote_user(u, "ann")
    \/ \E u \in {"ann", "bob"} : delete_user(u)
    \/ create_survey("intake", "first visit", <<"financial">>, "bob")

SpecUsers == Init /\ [][NextUsers]_vars

\* account creation alone, from the seeded store
NextCreate ==
    \/ \E u \in Usernames, pw \in Passwords, r \in {"Friend", "Greeter"},
          by \in {None, "bob"} : create_user(u, pw, r, by)
    \/ \E pw \in {GoodPw, OtherPw} : authenticate_user("ann", pw)

SpecCreate == Init /\ [][NextCreate]_vars

\* accounts created and deleted, none of them under the seed's username
NextLifecycle ==
    \/ \E u \in {"ann", "bob"}, r \in {"Friend", "Greeter"} :
          create_user(u, GoodPw, r, None)
    \/ \E u \in {"ann", "bob"} : delete_user(u)

SpecLifecycle == Init /\ [][NextLifecycle]_vars

\* Friend accounts created by two callers at a time
NextRace ==
    \/ \E p \in Procs, u \in {"ann", "bob"}, pw \in Passwords :
          create_user_count(p, u, pw, "Friend", None)
    \/ \E p \in Procs : create_user_create(p)

SpecRace == Init /\ [][NextRace]_vars

\* promotions requested by and for every username
NextPromote ==
    \/ \E u \in {"ann", "bob"}, r \in {"Friend", "Greeter"} :
          create_user(u, GoodPw, r, None)
    \/ \E u \in Usernames, by \in Usernames : promote_user(u, by)

SpecPromote == Init /\ [][NextPromote]_vars

\* the password policy on its own
InitPolicy ==
    /\ InitStore
    /\ \E pw \in PolicyPasswords, m \in MinLengths :
          ret = Call("typed", <<pw, m>>, TRUE, None)

NextPolicy == validate_password_call

SpecPolicy == InitPolicy /\ [][NextPolicy]_vars

\* demotion requests against the store, next to one admin session
NextDemote ==
    \/ \E u \in {"ann", "bob"} : create_user(u, GoodPw, "Admin", None)
    \/ promote_user(SeedUser, "ann")
    \/ \E u \in {SeedUser, "bob"}, by \in VoterLists : demote_admin(u, by)
    \/ login("s1", "ann", GoodPw)
    \/ logout("s1")
    \/ \E u \in {SeedUser, "bob"} : vote_button("s1", u)

SpecDemote == Init /\ [][NextDemote]_vars

\* demotions requested by two callers at a time, while accounts are deleted
QuorumLists == {<<"ann">>, <<"ann", "bob">>, <<"ann", "ann">>,
                <<"bob", SeedUser>>}

NextQuorum ==
    \/ \E u \in {"ann", "bob"} : create_user(u, GoodPw, "Admin", None)
    \/ \E p \in Procs, u \in {"ann", "bob"}, by \in QuorumLists :
          demote_admin_check(p, u, by)
    \/ \E p \in Procs : demote_admin_demote(p)
    \/ delete_user("bob")

SpecQuorum == Init /\ [][NextQuorum]_vars

\* demotion votes cast from two admin sessions
NextVotes ==
    \/ \E u \in {"ann", "bob"} : create_user(u, GoodPw, "Admin", None)
    \/ promote_user(SeedUser, "ann")
    \/ \E s \in Sessions, u \in {"ann", "bob"} : login(s, u, GoodPw)
    \/ \E s \in Sessions : logout(s)
    \/ \E s \in Sessions, u \in Usernames : vote_button(s, u)

SpecVotes == Init /\ [][NextVotes]_vars

\* recipients, the interaction ledger and its summary
NextLedger ==
    \/ \E u \in {SeedUser, "ann"} : create_user(u, GoodPw, "Friend", None)
    \/ \E key \in Keys, p \in Pseudonyms \cup {None} : create_recipient(key, p)
    \/ \E u \in {SeedUser, "ann"}, key \in Keys, t \in Types,
          p \in {"p1", None} : log_interaction(u, key, t, None, p)
    \/ get_summary_stats

SpecLedger == Init /\ [][NextLedger]_vars

\* recipients created by two callers at a time
NextMerge ==
    \/ \E p \in Procs, key \in Keys, ps \in Pseudonyms \cup {None} :
          create_recipient_match(p, key, ps)
    \/ \E p \in Procs : create_recipient_create(p)

SpecMerge == Init /\ [][NextMerge]_vars

\* the ledger as the reports read it, while accounts come and go
NextAudit ==
    \/ create_user("ann", GoodPw, "Friend", None)
    \/ \E u \in {SeedUser, "ann"}, key \in Keys, t \in Types :
          log_interaction(u, key, t, None, None)
    \/ \E u \in {SeedUser, "ann"} : delete_user(u)
    \/ \E key \in Keys \cup {None} : get_interactions(key)
    \/ export_interactions_data

SpecAudit == Init /\ [][NextAudit]_vars

\* the ledger while the server comes and goes
NextOutage ==
    \/ server_down
    \/ server_up
    \/ \E key \in Keys : create_recipient(key, None)
    \/ \E key \in Keys, t \in Types :
          log_interaction(SeedUser, key, t, None, None)
    \/ \E key \in Keys : except_branch("create_recipient", <<key, None>>)
    \/ \E key \in Keys, t \in Types :
          except_branch("log_interaction", <<SeedUser, key, t, None, None>>)
    \/ \E key \in Keys \cup {None} : get_interactions(key)
    \/ export_interactions_data
    \/ get_summary_stats

SpecOutage == Init /\ [][NextOutage]_vars

\* accounts created while the server comes and goes
SignupPasswords == {GoodPw, WeakPw, <<"Z", "7">>}

NextSignup ==
    \/ server_down
    \/ server_up
    \/ \E u \in {"ann", "bob"}, pw \in SignupPasswords,
          role \in {"Friend", "Greeter"} :
          \/ create_user(u, pw, role, None)
          \/ create_user_except(u, pw, role, None)

SpecSignup == Init /\ [][NextSignup]_vars

\* surveys created, edited and deleted next to account creation
NextSurveyAdmin ==
    \/ \E u \in {"ann", "bob"} : create_user(u, GoodPw, "Friend", None)
    \/ \E by \in {SeedUser, "bob"} :
          create_survey("intake", "first visit", <<"financial">>, by)
    \/ \E id \in SurveyIds :
          update_survey(id, "intake", "every visit", <<"housing">>)
    \/ \E id \in SurveyIds : delete_survey(id)
    \/ \E u \in {"ann", "bob"} : authenticate_user(u, GoodPw)

SpecSurveyAdmin == Init /\ [][NextSurveyAdmin]_vars

\* surveys and survey responses
\* the (recipient key, section) pairs the questionnaire form is saved for
SavedPairs == {<<"R1", "financial">>, <<"R1", "housing">>, <<"R2", "financial">>}

NextSurvey ==
    \/ create_user(SeedUser, GoodPw, "Friend", None)
    \/ create_survey("intake", "first visit", <<"financial">>, SeedUser)
    \/ \E id \in SurveyIds : delete_survey(id)
    \/ \E pair \in SavedPairs, a \in Answers,
          id \in {1, NoSurvey}, u \in {None, SeedUser} :
          save_questionnaire(pair[1], pair[2], a, id, u)

SpecSurvey == Init /\ [][NextSurvey]_vars

\* the questionnaire saved again against another survey
NextResave ==
    \/ create_survey("intake", "first visit", <<"financial">>, SeedUser)
    \/ \E id \in SurveyIds : delete_survey(id)
    \/ \E key \in Keys, a \in Answers, id \in SurveyIds \cup {NoSurvey} :
          save_questionnaire(key, "financial", a, id, None)

SpecResave == Init /\ [][NextResave]_vars

\* an admin session that stays open while its account is demoted or deleted
NextStale ==
    \/ \E u \in {"ann", "bob"} : create_user(u, GoodPw, "Admin", None)
    \/ login("s1", "ann", GoodPw)
    \/ logout("s1")
    \/ demote_admin("ann", <<"ann", "bob">>)
    \/ delete_user("ann")
    \/ promote_button("s1", SeedUser)
    \/ promote_user("ann", "bob")

SpecStale == Init /\ [][NextStale]_vars

\* ================================================================ claims
AuthFailure == {[ok |-> FALSE, val |-> NoData]}

AuthSuccess(username, role) ==
    {[ok |-> TRUE, val |-> [username |-> username, role |-> role]]}

\* C1: usernames are unique: create_user with a username that already names
\* a stored User returns false and leaves exactly the one User of that name,
\* unchanged.
C1_UsernameConflict ==
    [][(ret'.op = "create_user" /\ UsersNamed(ret'.args[1]) # {})
        => /\ ~ret'.ok
           /\ Cardinality({n \in users' : n.username = ret'.args[1]}) = 1
           /\ {n \in users' : n.username = ret'.args[1]}
                 = UsersNamed(ret'.args[1])]_vars

C8_FirstUserOnly ==
    [][(ret'.op = "create_user" /\ ret'.args[3] = "Friend")
        => \A n \in users' \ users :
              /\ stored_roles = {} => n.role = "Admin"
              /\ "Friend" \in stored_roles => n.role = "Friend"]_vars

\* every stored User named `username` holds the role Admin, and there is one
IsAdmin(username) ==
    /\ UsersNamed(username) # {}
    /\ \A n \in UsersNamed(username) : n.role = "Admin"

\* the vote lists kept for `target` are empty in every session state of S
VotesCleared(S, target) ==
    \A s \in Sessions :
        target \in DOMAIN S[s].admin_demotion_votes
            => S[s].admin_demotion_votes[target] = <<>>

\* C2: demote with one voter never changes a role; demote with two distinct
\* voters, both Admin and both other than the target, turns an Admin target
\* into a Friend and clears the votes kept for the target; the same demote
\* call repeated afterwards changes nothing.
C2_DemoteQuorum ==
    [][ret'.op = "demote_admin"
        => /\ Len(ret'.args[2]) = 1 => users' = users
           /\ (/\ Len(ret'.args[2]) = 2
               /\ ret'.args[2][1] # ret'.args[2][2]
               /\ \A i \in 1..2 : /\ IsAdmin(ret'.args[2][i])
                                  /\ ret'.args[2][i] # ret'.args[1]
               /\ IsAdmin(ret'.args[1]))
              => /\ \A n \in {m \in users' : m.username = ret'.args[1]} :
                       n.role = "Friend"
                 /\ VotesCleared(session', ret'.args[1])
           /\ (ret.op = "demote_admin" /\ ret.ok /\ ret'.args = ret.args)
              => users' = users /\ rels' = rels]_vars

\* C3: demote succeeds only if every submitted voter is an Admin other than
\* the target; with a voter that is no Admin, does not exist or is the
\* target, it returns false and changes no role, relation or vote.
C3_AllVotersValid ==
    [][(/\ ret'.op = "demote_admin"
        /\ \E i \in 1..Len(ret'.args[2]) :
              \/ ~IsAdmin(ret'.args[2][i])
              \/ ret'.args[2][i] = ret'.args[1])
        => /\ ~ret'.ok
           /\ users' = users /\ rels' = rels /\ session' = session]_vars

\* C4: the votes to demote a target are shared by all admin sessions: once
\* two distinct Admins, neither of them the target, have each cast a vote
\* for the target from their own session, the target is no Admin any more.
C4_SharedVotes ==
    \A s1 \in Sessions, s2 \in Sessions, target \in Usernames :
        (/\ s1 # s2
         /\ session[s1].authenticated /\ session[s2].authenticated
         /\ session[s1].username # session[s2].username
         /\ IsAdmin(session[s1].username) /\ IsAdmin(session[s2].username)
         /\ target \notin {session[s1].username, session[s2].username}
         /\ InList(session[s1].username, VotesOf(s1, target))
         /\ InList(session[s2].username, VotesOf(s2, target)))
        => \A n \in UsersNamed(target) : n.role # "Admin"

\* C5: create_recipient on a key right after create_recipient on the same
\* key, with a non-empty pseudonym, leaves one Recipient with that key, whose
\* created_at is still that of the first call and whose pseudonym is the
\* second call's.
C5_MergeByKey ==
    [][(/\ ret.op = "create_recipient" /\ ret'.op = "create_recipient"
        /\ ret'.args[1] = ret.args[1]
        /\ ret'.args[2] # None)
        => /\ Cardinality({r \in recipients' : r.key = ret'.args[1]}) = 1
           /\ \A r \in {x \in recipients' : x.key = ret'.args[1]} :
                 /\ \A old \in RecipientsKeyed(ret'.args[1]) :
                       r.created_at = old.created_at
                 /\ r.pseudonym = ret'.args[2]]_vars

\* the INVOLVES relationships that end at a Recipient with the key
InvolvesIn(R, nodes, key) ==
    {r \in R : r.type = "INVOLVES"
               /\ r.dst \in {n.id : n \in {m \in nodes : m.key = key}}}

\* C6: every successful log call leaves exactly one Recipient with its key
\* and adds exactly one Interaction involving it, so N calls for a new key
\* leave one Recipient and N Interactions.
C6_OneInteractionPerLog ==
    [][(ret'.op = "log_interaction" /\ ret'.ok)
        => /\ Cardinality({r \in recipients' : r.key = ret'.args[2]}) = 1
           /\ Cardinality(interactions') = Cardinality(interactions) + 1
           /\ Cardinality(InvolvesIn(rels', recipients', ret'.args[2]))
                 = Cardinality(InvolvesIn(rels, recipients, ret'.args[2])) + 1
      ]_vars

RECURSIVE SumCounts(_)
SumCounts(S) ==
    IF S = {} THEN 0
    ELSE LET x == CHOOSE y \in S : TRUE IN x.count + SumCounts(S \ {x})

\* C10: in every state the summary reports the number of stored
\* Interactions, the number of stored Recipients (with or without an
\* Interaction), and per-type counts that add up to the Interactions.
C10_SummaryCounts ==
    /\ SummaryStats.total_interactions = Cardinality(interactions)
    /\ SummaryStats.total_recipients = Cardinality(recipients)
    /\ SumCounts(SummaryStats.interaction_types) = Cardinality(interactions)
    /\ \A x \in SummaryStats.interaction_types, y \in SummaryStats.interaction_types :
          x.type = y.type => x = y

\* C9: there is at most one stored response per (recipient key, section);
\* a successful save for a pair that has one keeps its created_at, stamps
\* updated_at and replaces the answers with the new ones.
C9_ResponseUpsert ==
    [][/\ \A key \in Keys, sec \in Sections :
             Cardinality({q \in responses' : /\ q.recipient_key = key
                                             /\ q.section = sec}) <= 1
       /\ (ret'.op = "save_questionnaire" /\ ret'.ok)
          => \A old \in ResponsesFor(ret'.args[1], ret'.args[2]) :
                \E q \in responses' :
                   /\ q.recipient_key = old.recipient_key
                   /\ q.section = old.section
                   /\ q.created_at = old.created_at
                   /\ q.updated_at = clock
                   /\ json_loads(q.responses_json) = ret'.args[3]]_vars

\* C9 witness: a pair saved before was saved again with other answers
C9_Witness ==
    /\ ret.op = "save_questionnaire" /\ ret.ok
    /\ \E q \in ResponsesFor(ret.args[1], ret.args[2]) :
          /\ q.created_at < q.updated_at
          /\ json_loads(q.responses_json) = ret.args[3]
    /\ Cardinality(responses) >= 2

\* C11: log_interaction with a logged_by that names no stored User returns
\* false and changes nothing in the store: no Interaction, no Recipient (new
\* or modified), no relationship.
C11_LogUnknownLogger ==
    [][(ret'.op = "log_interaction" /\ UsersNamed(ret'.args[1]) = {})
        => ~ret'.ok /\ store' = store]_vars

\* C11 witness: a log call by an unknown user for a key no Recipient has,
\* with a pseudonym, while other Recipients are stored
C11_Witness ==
    /\ ret.op = "log_interaction" /\ ~ret.ok
    /\ UsersNamed(ret.args[1]) = {}
    /\ RecipientsKeyed(ret.args[2]) = {}
    /\ ret.args[5] # None
    /\ recipients # {}

\* C12: promote_user changes a role only when promoted_by names a stored
\* Admin and differs from username; when promoted_by is no Admin, does not
\* exist or equals username, or username does not exist, it returns false,
\* changes no role and creates no PROMOTED relationship.
C12_PromoteGuard ==
    [][ret'.op = "promote_user"
        => LET allowed == /\ ret'.args[2] # ret'.args[1]
                          /\ \E p \in UsersNamed(ret'.args[2]) : p.role = "Admin"
           IN  /\ users' # users => allowed
               /\ (~allowed \/ UsersNamed(ret'.args[1]) = {})
                  => ~ret'.ok /\ users' = users /\ rels' = rels]_vars

\* C12 witness: an Admin asked to promote themselves and was refused, in a
\* store that holds PROMOTED relationships of earlier promotions
C12_Witness ==
    /\ ret.op = "promote_user" /\ ~ret.ok
    /\ ret.args[1] = ret.args[2]
    /\ IsAdmin(ret.args[1])
    /\ \E r \in rels : r.type = "PROMOTED"
    /\ \E n \in users : n.role = "Greeter"

\* C13: a failed authenticate returns the value it returns on the store that
\* differs only in holding no User of that username, namely (false, no
\* data), whether the username is stored or not.
C13_UndifferentiatedFailure ==
    [][(ret'.op = "authenticate_user" /\ ~ret'.ok)
        => /\ [ok |-> ret'.ok, val |-> ret'.val]
                 \in AuthResultsIn(users \ UsersNamed(ret'.args[1]),
                                   ret'.args[1], ret'.args[2])
           /\ ret'.val = NoData]_vars

\* C13 witness: authenticate failed on a wrong password for a stored user
\* that has a password hash
C13_Witness ==
    /\ ret.op = "authenticate_user" /\ ~ret.ok
    /\ \E n \in UsersNamed(ret.args[1]) : n.password_hash # NoHash

\* C14: delete_user removes no Interaction, and every Interaction the deleted
\* user logged is still returned by get_interactions and
\* export_interactions_data, with the deleted username as logged_by.
C14_DeleteKeepsInteractions ==
    [][ret'.op = "delete_user"
        => /\ interactions' = interactions
           /\ \A row \in InteractionRows :
                 row.logged_by = ret'.args[1] => row \in InteractionRows']_vars

\* C15: delete_survey leaves every SurveyResponse as it is, and
\* get_questionnaire returns for every recipient and section the records,
\* answers included, that it returned before the deletion.
C15_DeleteSurveyKeepsResponses ==
    [][ret'.op = "delete_survey"
        => /\ responses' = responses
           /\ \A key \in Keys, sec \in Sections \cup {None} :
                 get_questionnaire(key, sec)' = get_questionnaire(key, sec)
      ]_vars

\* C15 witness: a survey was deleted that a stored response was saved
\* against, and the response is still returned for its recipient
C15_Witness ==
    /\ ret.op = "delete_survey" /\ ret.ok
    /\ \E q \in responses :
          /\ q.survey_id = ret.args[1]
          /\ \E rec \in get_questionnaire(q.recipient_key, None) :
                /\ rec.survey_id = ret.args[1]
                /\ rec.responses \in Answers

\* the rules a password violates, in the order of the checks, when
\* `symbols` are the characters that count as a symbol
ViolatedRules(password, min_length, symbols) ==
       (IF Len(password) < min_length THEN <<"length">> ELSE <<>>)
    \o (IF \A i \in 1..Len(password) : password[i] \notin Lower
        THEN <<"lowercase">> ELSE <<>>)
    \o (IF \A i \in 1..Len(password) : password[i] \notin Upper
        THEN <<"uppercase">> ELSE <<>>)
    \o (IF \A i \in 1..Len(password) : password[i] \notin Digit
        THEN <<"number">> ELSE <<>>)
    \o (IF \A i \in 1..Len(password) : password[i] \notin symbols
        THEN <<"special">> ELSE <<>>)

LoggedOut(state) ==
    /\ ~state.authenticated
    /\ state.username = None
    /\ state.role = None
    /\ DOMAIN state.admin_demotion_votes = {}

\* C17: a session that is not authenticated has no username, no role and an
\* empty vote map; logout resets the four fields, a failed login changes no
\* session state, and a successful login stores the username and the role
\* that authenticate returned.
C17_SessionReset ==
    [][/\ \A s \in Sessions :
             ~session'[s].authenticated => LoggedOut(session'[s])
       /\ ret'.op = "logout" => LoggedOut(session'[ret'.args[1]])
       /\ (ret'.op = "login" /\ ~ret'.ok) => session' = session
       /\ (ret'.op = "login" /\ ret'.ok)
          => /\ session'[ret'.args[1]].authenticated
             /\ session'[ret'.args[1]].username = ret'.val.username
             /\ session'[ret'.args[1]].role = ret'.val.role
             /\ [ok |-> TRUE, val |-> ret'.val]
                   \in AuthResults(ret'.args[2], ret'.args[3])]_vars

\* C17 witness: a session was logged out and is reset while the other
\* session is logged in and holds a vote
C17_Witness ==
    /\ ret.op = "logout"
    /\ LoggedOut(session[ret.args[1]])
    /\ \E s \in Sessions, target \in Usernames :
          /\ session[s].authenticated
          /\ VotesOf(s, target) # <<>>

\* C18: a call made while the server is unreachable returns a result that
\* differs from what the same call returns when it succeeds: a bool method
\* returns false, and get_interactions, export_interactions_data and
\* get_summary_stats return something else than they return on a reachable
\* store that is empty.
C18_ConnectivityFailure ==
    [][(~reachable /\ ~reachable')
        => /\ ret'.op \in BoolOps => ~ret'.ok
           /\ ret'.op \in {"get_interactions", "export_interactions_data"}
              => ret'.val # {}
           /\ ret'.op = "get_summary_stats" => ret'.val # EmptyStats]_vars

\* C19: over create_user and delete_user calls, only the first user stored
\* after the seed account can be promoted on creation: once a create_user
\* call has stored a user, no create_user call with role Friend stores an
\* Admin.
C19_AutoPromotionOnce ==
    [][(/\ ret'.op = "create_user"
        /\ ret'.args[3] = "Friend"
        /\ stored_roles # {})
        => \A n \in users' \ users : n.role # "Admin"]_vars

\* C20: when only Friend accounts are created, by callers that may run at
\* the same time, the count and the write of a call are one step: as soon as
\* a user other than the seed is stored, exactly one of them is Admin and
\* every other one is Friend.
C20_AtomicFirstUser ==
    LET new == {n \in users : n.username # SeedUser}
    IN  new # {}
        => /\ Cardinality({n \in new : n.role = "Admin"}) = 1
           /\ \A n \in new : n.role \in {"Admin", "Friend"}

\* C21: when callers that reference the same recipient key run at the same
\* time, the store holds one Recipient for the key once their calls are
\* done.
C21_OneRecipientPerKey ==
    (\A p \in Procs : inflight[p].pc = "idle")
        => \A key \in Keys : Cardinality(RecipientsKeyed(key)) <= 1

\* no two stored Users share a username
UniqueUsernames == \A n \in users, m \in users : n.username = m.username => n = m

\* C22: the quorum check and the role change of demote are one step: in a
\* store without duplicate usernames, a demote call turns an Admin into a
\* Friend only in a state in which at least two distinct usernames of the
\* submitted voters name an Admin, whatever ran between its check and its
\* role change, and a username submitted twice counts once.
C22_QuorumAtRoleChange ==
    [][(/\ ret'.op = "demote_admin"
        /\ UniqueUsernames
        /\ \E n \in users : /\ n.role = "Admin"
                            /\ [n EXCEPT !.role = "Friend"] \in users')
        => Cardinality({v \in Usernames :
                           /\ InList(v, ret'.args[2])
                           /\ \E n \in UsersNamed(v) : n.role = "Admin"}) >= 2
      ]_vars

\* C23: Greeter is a terminal role: promote and demote calls leave every
\* User that is stored as Greeter as it is, and a User that is newly a
\* Greeter comes from create_user only.
C23_GreeterTerminal ==
    [][/\ ret'.op \in {"promote_user", "demote_admin", "vote_button"}
          => \A n \in users : n.role = "Greeter" => n \in users'
       /\ \A n \in users' :
             (n.role = "Greeter" /\ n \notin users) => ret'.op = "create_user"
      ]_vars

\* C24: the ledger is append-only and never orphaned: every step keeps each
\* stored Interaction as it is, and after every step each Interaction is
\* linked by LOGGED to exactly one stored User and by INVOLVES to exactly
\* one stored Recipient.
C24_LedgerNeverOrphaned ==
    [][/\ interactions \subseteq interactions'
       /\ \A i \in interactions' :
             /\ Cardinality({u \in users' :
                   \E l \in rels' : /\ l.type = "LOGGED"
                                    /\ l.src = u.id /\ l.dst = i.id}) = 1
             /\ Cardinality({r \in recipients' :
                   \E v \in rels' : /\ v.type = "INVOLVES"
                                    /\ v.src = i.id /\ v.dst = r.id}) = 1
      ]_vars

\* C25: a successful log call merges the Recipient of its key: with a
\* non-empty pseudonym the Recipient, new or not, has that pseudonym
\* afterwards; without one an existing Recipient keeps its pseudonym; an
\* existing Recipient keeps its created_at in both cases.
C25_LogMergesPseudonym ==
    [][(ret'.op = "log_interaction" /\ ret'.ok)
        => \A r \in {x \in recipients' : x.key = ret'.args[2]} :
              /\ ret'.args[5] # None => r.pseudonym = ret'.args[5]
              /\ \A old \in RecipientsKeyed(ret'.args[2]) :
                    /\ r.created_at = old.created_at
                    /\ ret'.args[5] = None => r.pseudonym = old.pseudonym
      ]_vars


C27_SurveyOpsKeepUsers ==
    [][ret'.op \in {"create_survey", "update_survey", "delete_survey"}
        => /\ users' = users
           /\ (ret'.op = "create_survey" /\ UsersNamed(ret'.args[4]) = {})
                 => surveys' = surveys]_vars


\* C28: a demote call never takes the last Admin away: in a store without
\* duplicate usernames that holds an Admin, the store still holds an Admin
\* when a demote_admin call returns, whatever voter list it was given and
\* whatever ran between its check and its role change.
C28_AdminRemains ==
    [][(/\ ret'.op = "demote_admin"
        /\ UniqueUsernames
        /\ \E n \in users : n.role = "Admin")
        => \E n \in users' : n.role = "Admin"]_vars


\* C29: every stored SurveyResponse has a HAS_RESPONSE relationship from at
\* most one Survey, and that Survey's id is the response's survey_id, also
\* after its (recipient key, section) was saved again for another survey.
C29_OneSurveyPerResponse ==
    \A q \in responses :
        LET linked == {v \in surveys :
                          \E l \in rels : /\ l.type = "HAS_RESPONSE"
                                          /\ l.src = v.id
                                          /\ l.dst = q.id}
        IN  /\ Cardinality(linked) <= 1
            /\ \A v \in linked : v.sid = q.survey_id


\* C30: promotion is authorized against the stored role at the time of the
\* call: a promote_user call whose promoter is then not stored as Admin,
\* demoted or deleted as it may be, fails and changes nothing, also when it
\* comes from a session that still has role Admin.
C30_PromoteChecksStoredRole ==
    [][(/\ ret'.op = "promote_user"
        /\ \A n \in UsersNamed(ret'.args[2]) : n.role # "Admin")
        => /\ ~ret'.ok
           /\ store' = store]_vars

\* C30 witness: the admin page of a session with role Admin asked for a
\* promotion after its user was demoted, and the call failed
C30_Witness ==
    /\ ret.op = "promote_user"
    /\ ~ret.ok
    /\ session["s1"].authenticated
    /\ session["s1"].role = "Admin"
    /\ session["s1"].username = ret.args[2]
    /\ UsersNamed(ret.args[1]) # {}
    /\ \E n \in UsersNamed(ret.args[2]) :
          /\ n.role = "Friend"
          /\ \E l \in rels : l.type = "DEMOTED" /\ l.dst = n.id

\* C30 witness for a deleted account: the same call after the session's user
\* was deleted
C30_WitnessDeleted ==
    /\ ret.op = "promote_user"
    /\ ~ret.ok
    /\ session["s1"].role = "Admin"
    /\ session["s1"].username = ret.args[2]
    /\ UsersNamed(ret.args[1]) # {}
    /\ UsersNamed(ret.args[2]) = {}

====
